---- MODULE Spec2Model ----
(***************************************************************************)
(* Model of the streaming transport (lib/ws: createWebSocketClient) and of *)
(* the resampling framer (lib/audio: createMicrophonePcmStream).           *)
(*                                                                         *)
(* The browser objects the code drives (WebSocket, Promise, MediaStream,   *)
(* AudioContext, ScriptProcessorNode) are modelled by the state the code   *)
(* reads or changes on them.  A WebSocket follows the WHATWG life cycle:   *)
(* CONNECTING -> OPEN -> CLOSING -> CLOSED; a connection that ends without *)
(* ever having opened was failed, so its close event is preceded by an     *)
(* error event in the same task; promise reactions (the callers' code) run *)
(* between the two handlers.                                               *)
(***************************************************************************)
EXTENDS Integers, Sequences, FiniteSets

\* ---------------------------------------------------------------- bounds
\* WebSocket objects one transport instance may create in a run.
MaxSockets == 3
\* sendAudioChunk() calls made on one transport instance in a run.
MaxSends == 2
\* Message events delivered to one transport instance in a run.
MaxMessages == 2
\* start() calls made on one framer in a run.
MaxStarts == 2
\* Block periods of the capture backend the clock advances through.
MaxTicks == 9
\* Block periods the clock advances through when start() calls may overlap.
MaxOverlapTicks == 4
\* Milliseconds of steady capture in the real-time scenario.
ScenarioMs == 2000

\* ------------------------------------------------------ program constants
TARGET_SAMPLE_RATE == 16000
FRAME_DURATION_MS == 250
\* new AudioContext({ sampleRate: 48000 })
CONTEXT_SAMPLE_RATE == 48000
\* createScriptProcessor(4096, 1, 1)
BUFFER_SIZE == 4096
\* new Int16Array(...): bytes of one PCM sample
BYTES_PER_SAMPLE == 2

VARIABLES
  \* ---- transport (createWebSocketClient closure and the objects it made)
  urlOk,        \* whether new WebSocket(url) succeeds for this instance's url
  socket,       \* the closure's `socket`: an index of readyState, 0 for null
  openPromise,  \* the closure's `openPromise`: an index of promise, 0 for null
  readyState,   \* readyState of every WebSocket created, in creation order
  everOpened,   \* per WebSocket: its open event was delivered
  sockPromise,  \* per WebSocket: the promise its onopen/onerror settle
  closeTask,    \* the WebSocket whose error handler ran and whose close
                \* handler is still to run in the same task, 0 for none
  promise,      \* state of every promise made by connect()'s executor
  promSock,     \* per promise: the WebSocket of the attempt, 0 if none was made
  lastRet,      \* what the latest connect() since the last close() returned
  wsErrors,     \* number of onError calls made by the transport
  nSends,       \* number of sendAudioChunk() calls
  nSent,        \* number of frames handed to a WebSocket for transmission
  lastSend,     \* the latest sendAudioChunk(): isOpen() at the call, outcome
  nMsgs,        \* number of message events delivered to onmessage handlers
  nDelivered,   \* number of onMessage calls
  lastDelivered, \* the kind of value the latest onMessage call was given
  \* ---- framer (createMicrophonePcmStream closure and the objects it made)
  mediaStream,    \* the closure's handles: an index of the sequence of the
  audioContext,   \* objects of that kind, 0 for null
  processor,
  sourceNode,
  running,
  resampleBuffer, \* the pending Float32Array: which samples it holds, as
                  \* runs of consecutive resampled samples of one processor
  lastEmitTime,   \* in sample periods of the capture context
  now,            \* performance.now(), in the same unit
  streams,        \* per MediaStream acquired: "live" or "stopped"
  contexts,       \* per AudioContext created: "running" or "closed"
  sources,        \* per source node: "created", "connected", "disconnected"
  processors,     \* per ScriptProcessorNode: connected, handler installed,
                  \* its context, creation time, blocks delivered so far
  starts,         \* per start() call: where it is and how it ended
  lastChunk,      \* samples in the latest chunk passed to onChunk, 0 if none
  nChunks,        \* number of onChunk calls
  micErrors,      \* number of onError calls made by the framer
  level,          \* the input signal: every captured sample has this value,
                  \* in thousandths of full scale
  lastPcm,        \* the Int16 value of the samples of the latest chunk
  lastThrew,      \* whether the latest onChunk call threw
  lastChunkAt,    \* time of the latest onChunk call, or of the start of the
                  \* session when it has had none
  received,       \* the resampled samples the handler took in this session
  emitted         \* the chunks passed to onChunk in this session, concatenated

\* What the transport sent and received.
wsIo == <<nSends, nSent, lastSend, nMsgs, nDelivered, lastDelivered>>

wsVars == <<urlOk, socket, openPromise, readyState, everOpened, sockPromise,
            closeTask, promise, promSock, lastRet, wsErrors, wsIo>>

micVars == <<mediaStream, audioContext, processor, sourceNode, running,
             resampleBuffer, lastEmitTime, now, streams, contexts, sources,
             processors, starts, lastChunk, nChunks, micErrors, level,
             lastPcm, lastThrew, lastChunkAt, received, emitted>>

vars == <<wsVars, micVars>>

NoRet == [kind |-> "none", id |-> 0, was |-> "none"]

\* resolve()/reject() of a promise: only the first call settles it.
Settle(ps, p, outcome) ==
  IF ps[p] = "pending" THEN [ps EXCEPT ![p] = outcome] ELSE ps

\* socket.onopen = () => resolve()
OnOpenPromise(ps, p) ==
  Settle(ps, p, "resolved")

OnErrorPromise_NoReject(ps, p) ==
  ps

\* socket.onerror: reject(new Error('WebSocket error'))
OnErrorPromise(ps, p) ==
  Settle(ps, p, "rejected")

\* isOpen(): !!socket && socket.readyState === WebSocket.OPEN
IsOpen ==
  socket # 0 /\ readyState[socket] = "OPEN"

WsInit ==
  /\ urlOk \in BOOLEAN
  /\ socket = 0
  /\ openPromise = 0
  /\ readyState = << >>
  /\ everOpened = << >>
  /\ sockPromise = << >>
  /\ closeTask = 0
  /\ promise = << >>
  /\ promSock = << >>
  /\ lastRet = NoRet
  /\ wsErrors = 0
  /\ nSends = 0
  /\ nSent = 0
  /\ lastSend = [open |-> FALSE, outcome |-> "none"]
  /\ nMsgs = 0
  /\ nDelivered = 0
  /\ lastDelivered = "none"

\* connect(), line 21: the connection is open.
ConnectOpen ==
  /\ IsOpen
  /\ lastRet' = [kind |-> "resolved", id |-> 0, was |-> "resolved"]
  /\ UNCHANGED <<urlOk, socket, openPromise, readyState, everOpened,
                 sockPromise, closeTask, promise, promSock, wsErrors>>

\* connect(), line 22: a promise is cached.
ConnectShared ==
  /\ ~IsOpen
  /\ openPromise # 0
  /\ lastRet' = [kind |-> "shared", id |-> openPromise,
                 was |-> promise[openPromise]]
  /\ UNCHANGED <<urlOk, socket, openPromise, readyState, everOpened,
                 sockPromise, closeTask, promise, promSock, wsErrors>>

\* connect(), lines 23-51: a new promise whose executor creates the WebSocket
\* and installs its handlers, or catches the constructor's exception.
ConnectNew ==
  /\ ~IsOpen
  /\ openPromise = 0
  /\ Len(readyState) < MaxSockets
  /\ LET p == Len(promise) + 1
         s == Len(readyState) + 1
     IN IF urlOk
        THEN /\ readyState' = Append(readyState, "CONNECTING")
             /\ everOpened' = Append(everOpened, FALSE)
             /\ sockPromise' = Append(sockPromise, p)
             /\ socket' = s
             /\ promise' = Append(promise, "pending")
             /\ promSock' = Append(promSock, s)
             /\ openPromise' = p
             /\ lastRet' = [kind |-> "new", id |-> p, was |-> "pending"]
             /\ UNCHANGED wsErrors
        ELSE /\ wsErrors' = wsErrors + 1
             /\ promise' = Append(promise, "rejected")
             /\ promSock' = Append(promSock, 0)
             /\ openPromise' = p
             /\ lastRet' = [kind |-> "new", id |-> p, was |-> "rejected"]
             /\ UNCHANGED <<socket, readyState, everOpened, sockPromise>>
  /\ UNCHANGED <<urlOk, closeTask>>

Connect ==
  \/ ConnectOpen
  \/ ConnectShared
  \/ ConnectNew

\* WebSocket.close(): a connecting or open socket starts closing.
SocketCloseCall(rs, s) ==
  IF rs[s] \in {"CONNECTING", "OPEN"} THEN [rs EXCEPT ![s] = "CLOSING"] ELSE rs

\* close()
Close ==
  /\ IF socket # 0
     THEN /\ readyState' = SocketCloseCall(readyState, socket)
          /\ socket' = 0
          /\ openPromise' = 0
     ELSE UNCHANGED <<readyState, socket, openPromise>>
  /\ lastRet' = NoRet
  /\ UNCHANGED <<urlOk, everOpened, sockPromise, closeTask, promise, promSock,
                 wsErrors>>

\* The open event of WebSocket s: the handshake completed; onopen runs.
SocketOpen(s) ==
  /\ closeTask = 0
  /\ readyState[s] = "CONNECTING"
  /\ readyState' = [readyState EXCEPT ![s] = "OPEN"]
  /\ everOpened' = [everOpened EXCEPT ![s] = TRUE]
  /\ promise' = OnOpenPromise(promise, sockPromise[s])
  /\ UNCHANGED <<urlOk, socket, openPromise, sockPromise, closeTask, promSock,
                 lastRet, wsErrors>>

\* The error event of WebSocket s: the connection failed (handshake or
\* network error, or close() before the handshake completed); onerror runs.
\* The close event follows in the same task.
SocketError(s) ==
  /\ closeTask = 0
  /\ readyState[s] # "CLOSED"
  /\ readyState' = [readyState EXCEPT ![s] = "CLOSED"]
  /\ wsErrors' = wsErrors + 1
  /\ promise' = OnErrorPromise(promise, sockPromise[s])
  /\ closeTask' = s
  /\ UNCHANGED <<urlOk, socket, openPromise, everOpened, sockPromise, promSock,
                 lastRet>>

\* The close event of WebSocket s: after its error event, or alone when a
\* connection that had opened is closed by either side; onclose runs.
SocketClose(s) ==
  /\ \/ closeTask = s
     \/ closeTask = 0 /\ everOpened[s] /\ readyState[s] \in {"OPEN", "CLOSING"}
  /\ readyState' = [readyState EXCEPT ![s] = "CLOSED"]
  /\ socket' = 0
  /\ openPromise' = 0
  /\ closeTask' = 0
  /\ UNCHANGED <<urlOk, everOpened, sockPromise, promise, promSock, lastRet,
                 wsErrors>>

\* WebSocket.send() by the readyState it finds: it throws InvalidStateError
\* on a connecting socket, transmits on an open one and discards the data
\* on a closing or closed one.
SocketSend(state) ==
  CASE state = "CONNECTING" -> "threw"
    [] state = "OPEN" -> "sent"
    [] OTHER -> "discarded"

SendGuard_AnySocket ==
  socket # 0

\* sendAudioChunk(), line 55: socket && socket.readyState === WebSocket.OPEN
SendGuard ==
  socket # 0 /\ readyState[socket] = "OPEN"

\* sendAudioChunk(chunk)
SendAudioChunk ==
  /\ nSends < MaxSends
  /\ nSends' = nSends + 1
  /\ LET outcome == IF SendGuard THEN SocketSend(readyState[socket])
                                 ELSE "dropped"
     IN /\ lastSend' = [open |-> IsOpen, outcome |-> outcome]
        /\ nSent' = IF outcome = "sent" THEN nSent + 1 ELSE nSent
  /\ UNCHANGED <<urlOk, socket, openPromise, readyState, everOpened,
                 sockPromise, closeTask, promise, promSock, lastRet, wsErrors,
                 nMsgs, nDelivered, lastDelivered>>

\* What a message event may carry: a text frame holding a transcript or an
\* error message, a text frame of well-formed JSON of another shape, a text
\* frame that is not JSON, or a binary frame.
MessageKinds == {"transcript", "error", "otherJson", "notJson", "binary"}

\* typeof ev.data === 'string'
IsText(kind) ==
  kind # "binary"

\* JSON.parse(ev.data) throws SyntaxError
ParseThrows(kind) ==
  kind = "notJson"

OnParseError_Swallowed(errors) ==
  errors

\* onmessage's catch block: onError?.(err)
OnParseError(errors) ==
  errors + 1

\* A message event of WebSocket s, which the platform delivers only while
\* the socket is open; onmessage runs.
SocketMessage(s, kind) ==
  /\ closeTask = 0
  /\ readyState[s] = "OPEN"
  /\ nMsgs < MaxMessages
  /\ nMsgs' = nMsgs + 1
  /\ IF ~IsText(kind)
     THEN UNCHANGED <<wsErrors, nDelivered, lastDelivered>>
     ELSE IF ParseThrows(kind)
          THEN /\ wsErrors' = OnParseError(wsErrors)
               /\ UNCHANGED <<nDelivered, lastDelivered>>
          ELSE /\ nDelivered' = nDelivered + 1
               /\ lastDelivered' = kind
               /\ UNCHANGED wsErrors
  /\ UNCHANGED <<urlOk, socket, openPromise, readyState, everOpened,
                 sockPromise, closeTask, promise, promSock, lastRet,
                 nSends, nSent, lastSend>>

\* The life cycle of the connection.
WsNext ==
  \/ ConnectOpen /\ UNCHANGED <<wsIo, micVars>>
  \/ ConnectShared /\ UNCHANGED <<wsIo, micVars>>
  \/ ConnectNew /\ UNCHANGED <<wsIo, micVars>>
  \/ Close /\ UNCHANGED <<wsIo, micVars>>
  \/ \E s \in DOMAIN readyState : SocketOpen(s) /\ UNCHANGED <<wsIo, micVars>>
  \/ \E s \in DOMAIN readyState : SocketError(s) /\ UNCHANGED <<wsIo, micVars>>
  \/ \E s \in DOMAIN readyState : SocketClose(s) /\ UNCHANGED <<wsIo, micVars>>

\* The life cycle with the frames sent and the messages received.
WsIoNext ==
  \/ ConnectOpen /\ UNCHANGED <<wsIo, micVars>>
  \/ ConnectShared /\ UNCHANGED <<wsIo, micVars>>
  \/ ConnectNew /\ UNCHANGED <<wsIo, micVars>>
  \/ Close /\ UNCHANGED <<wsIo, micVars>>
  \/ SendAudioChunk /\ UNCHANGED micVars
  \/ \E s \in DOMAIN readyState : SocketOpen(s) /\ UNCHANGED <<wsIo, micVars>>
  \/ \E s \in DOMAIN readyState : SocketError(s) /\ UNCHANGED <<wsIo, micVars>>
  \/ \E s \in DOMAIN readyState : SocketClose(s) /\ UNCHANGED <<wsIo, micVars>>
  \/ \E s \in DOMAIN readyState : \E kind \in MessageKinds :
       SocketMessage(s, kind) /\ UNCHANGED micVars

\* ------------------------------------------------------------- framer
\* Time is counted in sample periods of the capture context (1/48000 s),
\* in which both durations the code compares are whole numbers.
\* The period of one block of BUFFER_SIZE samples:
BlockTime == BUFFER_SIZE

\* FRAME_DURATION_MS:
FrameTime == (FRAME_DURATION_MS * CONTEXT_SAMPLE_RATE) \div 1000

\* Math.round((TARGET_SAMPLE_RATE * FRAME_DURATION_MS) / 1000)
SamplesPerFrame == (TARGET_SAMPLE_RATE * FRAME_DURATION_MS + 500) \div 1000

\* resampleLinear: the length of its output.
ResampleLength(inputLength, inputRate, targetRate) ==
  IF inputRate = targetRate
  THEN inputLength
  ELSE (inputLength * targetRate) \div inputRate

\* The samples of block b (counted from 0) of processor p after resampling.
ResampleBlock(p, b) ==
  LET n == ResampleLength(BUFFER_SIZE, CONTEXT_SAMPLE_RATE, TARGET_SAMPLE_RATE)
  IN IF n = 0 THEN << >> ELSE <<[p |-> p, lo |-> b * n, hi |-> (b + 1) * n]>>

\* resampleLinear: output sample i, interpolated between the input samples
\* s0 and s1 that surround position i * inputRate / targetRate.
ResampleValue(s0, s1, i, inputRate, targetRate) ==
  LET weight == (i * inputRate) % targetRate
  IN (s0 * (targetRate - weight) + s1 * weight) \div targetRate

\* The length of a Float32Array.
RECURSIVE Size(_)
Size(buf) ==
  IF buf = << >> THEN 0 ELSE (Head(buf).hi - Head(buf).lo) + Size(Tail(buf))

\* new Float32Array(a.length + b.length) filled with a, then b.
Concat(a, b) ==
  IF a = << >> THEN b
  ELSE IF b = << >> THEN a
  ELSE LET x == a[Len(a)]
           y == Head(b)
       IN IF x.p = y.p /\ x.hi = y.lo
          THEN SubSeq(a, 1, Len(a) - 1) \o <<[x EXCEPT !.hi = y.hi]>> \o Tail(b)
          ELSE a \o b

\* buf.slice(0, n)
RECURSIVE SliceTo(_, _)
SliceTo(buf, n) ==
  IF n <= 0 \/ buf = << >>
  THEN << >>
  ELSE LET x == Head(buf)
           len == x.hi - x.lo
       IN IF n >= len
          THEN Concat(<<x>>, SliceTo(Tail(buf), n - len))
          ELSE <<[x EXCEPT !.hi = x.lo + n]>>

SliceFrom_KeepAll(buf, n) ==
  buf

\* buf.slice(n)
RECURSIVE SliceFrom(_, _)
SliceFrom(buf, n) ==
  IF n <= 0 \/ buf = << >>
  THEN buf
  ELSE LET x == Head(buf)
           len == x.hi - x.lo
       IN IF n >= len
          THEN SliceFrom(Tail(buf), n - len)
          ELSE <<[x EXCEPT !.lo = x.lo + n]>> \o Tail(buf)

\* Storing a number in an Int16Array: the fraction is dropped.  v is in
\* thousandths.
ToInt16(v) ==
  IF v >= 0 THEN v \div 1000 ELSE 0 - ((0 - v) \div 1000)

FloatTo16BitPCM_Offset(x) ==
  ToInt16(x * 32767) + 1

\* floatTo16BitPCM, for one sample x in thousandths of full scale.
FloatTo16BitPCM(x) ==
  LET s == IF x < -1000 THEN -1000 ELSE IF x > 1000 THEN 1000 ELSE x
  IN ToInt16(IF s < 0 THEN s * 32768 ELSE s * 32767)

EmitDue_Always(t, last) ==
  TRUE

\* line 53: now - lastEmitTime >= FRAME_DURATION_MS
EmitDue(t, last) ==
  t - last >= FrameTime

OnChunkError_Unreported(errors) ==
  errors

\* The catch block around onChunk: callbacks.onError?.(err)
OnChunkError(errors) ==
  errors + 1

FailurePoints == {"none", "context", "source", "processor", "connect"}

\* Input levels, in thousandths of full scale: silence, half and full scale
\* of either sign, and beyond full scale.
Levels == {-1500, -1000, -500, 0, 500, 1000, 1500}

\* The framer as constructed, before any input.
MicInitQuiet ==
  /\ mediaStream = 0
  /\ audioContext = 0
  /\ processor = 0
  /\ sourceNode = 0
  /\ running = FALSE
  /\ resampleBuffer = << >>
  /\ lastEmitTime = 0
  /\ now = 0
  /\ streams = << >>
  /\ contexts = << >>
  /\ sources = << >>
  /\ processors = << >>
  /\ starts = << >>
  /\ lastChunk = 0
  /\ nChunks = 0
  /\ micErrors = 0
  /\ lastPcm = 0
  /\ lastThrew = FALSE
  /\ lastChunkAt = 0
  /\ received = << >>
  /\ emitted = << >>

\* The microphone is silent unless a specification says otherwise.
MicInit ==
  /\ level = 0
  /\ MicInitQuiet

\* The object half of stop(): what it does to the objects its handles name.
StopStreams(strs, ms) ==
  IF ms # 0 THEN [strs EXCEPT ![ms] = "stopped"] ELSE strs

StopContexts(ctxs, ac) ==
  IF ac # 0 THEN [ctxs EXCEPT ![ac] = "closed"] ELSE ctxs

StopSources(srcs, sn) ==
  IF sn # 0 THEN [srcs EXCEPT ![sn] = "disconnected"] ELSE srcs

\* A processor that is disconnected and has no handler delivers nothing more:
\* its capture clock is dropped with it.
StopProcessors(procs, pr) ==
  IF pr # 0
  THEN [procs EXCEPT ![pr].connected = FALSE, ![pr].handler = FALSE,
                     ![pr].t0 = 0, ![pr].delivered = 0]
  ELSE procs

\* stop(), run with the handles holding ms, ac, sn, pr.
StopBody(ms, ac, sn, pr, strs, ctxs, srcs, procs) ==
  /\ running' = FALSE
  /\ processors' = StopProcessors(procs, pr)
  /\ processor' = 0
  /\ sources' = StopSources(srcs, sn)
  /\ sourceNode' = 0
  /\ contexts' = StopContexts(ctxs, ac)
  /\ audioContext' = 0
  /\ streams' = StopStreams(strs, ms)
  /\ mediaStream' = 0
  /\ resampleBuffer' = << >>
  /\ received' = << >>
  /\ emitted' = << >>

Done(failed) ==
  [pc |-> "done", failed |-> failed, stopped |-> FALSE, result |-> "resolved"]

\* start() up to its await: returns at once when running, else asks for the
\* microphone.
StartCall ==
  /\ Len(starts) < MaxStarts
  /\ IF running
     THEN starts' = Append(starts, Done(FALSE))
     ELSE starts' = Append(starts, [pc |-> "awaiting", failed |-> FALSE,
                                    stopped |-> FALSE, result |-> "none"])
  /\ UNCHANGED <<mediaStream, audioContext, processor, sourceNode, running,
                 resampleBuffer, lastEmitTime, now, streams, contexts, sources,
                 processors, lastChunk, nChunks, micErrors, level, lastPcm,
                 lastThrew, lastChunkAt, received, emitted>>

\* getUserMedia rejects (permission denied, no device): the catch block runs
\* onError and stop(), and start() returns normally.
GetUserMediaReject(k) ==
  /\ starts[k].pc = "awaiting"
  /\ micErrors' = micErrors + 1
  /\ StopBody(mediaStream, audioContext, sourceNode, processor,
              streams, contexts, sources, processors)
  /\ starts' = [starts EXCEPT ![k].pc = "done", ![k].failed = TRUE,
                              ![k].result = "resolved"]
  /\ UNCHANGED <<lastEmitTime, now, lastChunk, nChunks, level, lastPcm,
                 lastThrew, lastChunkAt>>

\* getUserMedia resolves: start() runs on from line 30 to its end, or to
\* the step f that throws, whose catch block runs onError and stop().
GetUserMediaResolve(k, f) ==
  /\ starts[k].pc = "awaiting"
  /\ LET ms1 == Len(streams) + 1
         strs1 == Append(streams, "live")
         hasCtx == f # "context"
         ac1 == IF hasCtx THEN Len(contexts) + 1 ELSE audioContext
         ctxs1 == IF hasCtx THEN Append(contexts, "running") ELSE contexts
         hasSrc == f \notin {"context", "source"}
         sn1 == IF hasSrc THEN Len(sources) + 1 ELSE sourceNode
         srcs1 == IF hasSrc
                  THEN Append(sources, IF f = "none" THEN "connected" ELSE "created")
                  ELSE sources
         hasProc == f \notin {"context", "source", "processor"}
         pr1 == IF hasProc THEN Len(processors) + 1 ELSE processor
         procs1 == IF hasProc
                   THEN Append(processors,
                               [connected |-> f = "none", handler |-> f = "none",
                                ctx |-> ac1, t0 |-> now, delivered |-> 0])
                   ELSE processors
     IN IF f = "none"
        THEN /\ mediaStream' = ms1
             /\ streams' = strs1
             /\ audioContext' = ac1
             /\ contexts' = ctxs1
             /\ sourceNode' = sn1
             /\ sources' = srcs1
             /\ processor' = pr1
             /\ processors' = procs1
             /\ running' = TRUE
             /\ lastEmitTime' = now
             /\ lastChunkAt' = now
             /\ received' = IF running THEN received ELSE << >>
             /\ emitted' = IF running THEN emitted ELSE << >>
             /\ starts' = [starts EXCEPT ![k].pc = "done", ![k].result = "resolved"]
             /\ UNCHANGED <<resampleBuffer, micErrors>>
        ELSE /\ micErrors' = micErrors + 1
             /\ StopBody(ms1, ac1, sn1, pr1, strs1, ctxs1, srcs1, procs1)
             /\ starts' = [starts EXCEPT ![k].pc = "done", ![k].failed = TRUE,
                                         ![k].result = "resolved"]
             /\ UNCHANGED <<lastEmitTime, lastChunkAt>>
  /\ UNCHANGED <<now, lastChunk, nChunks, level, lastPcm, lastThrew>>

\* stop(), called by the collaborator.
Stop ==
  /\ StopBody(mediaStream, audioContext, sourceNode, processor,
              streams, contexts, sources, processors)
  /\ starts' = [k \in DOMAIN starts |->
                  IF starts[k].pc = "awaiting"
                  THEN [starts[k] EXCEPT !.stopped = TRUE]
                  ELSE starts[k]]
  /\ UNCHANGED <<lastEmitTime, now, lastChunk, nChunks, micErrors, level,
                 lastPcm, lastThrew, lastChunkAt>>

\* The audioprocess event of ScriptProcessorNode p: the next block of
\* BUFFER_SIZE samples, no sooner than it was captured.  throws: whether
\* onChunk, if it is called, throws.
AudioProcessCall(p, throws) ==
  /\ processors[p].handler
  /\ processors[p].connected
  /\ contexts[processors[p].ctx] = "running"
  /\ (processors[p].delivered + 1) * BlockTime <= now - processors[p].t0
  /\ processors' = [processors EXCEPT ![p].delivered = @ + 1]
  /\ IF ~running
     THEN /\ ~throws
          /\ UNCHANGED <<resampleBuffer, lastEmitTime, lastChunk, nChunks,
                         micErrors, lastPcm, lastThrew, lastChunkAt, received,
                         emitted>>
     ELSE LET resampled == ResampleBlock(p, processors[p].delivered)
              concat == Concat(resampleBuffer, resampled)
              framesToEmit == Size(concat) \div SamplesPerFrame
              emitCount == framesToEmit * SamplesPerFrame
              frame == SliceTo(concat, emitCount)
          IN /\ received' = Concat(received, resampled)
             /\ IF EmitDue(now, lastEmitTime) /\ framesToEmit > 0
                THEN /\ resampleBuffer' = SliceFrom(concat, emitCount)
                     /\ lastEmitTime' = now
                     /\ lastChunk' = Size(frame)
                     /\ lastPcm' = FloatTo16BitPCM(
                                     ResampleValue(level, level, 1,
                                                   CONTEXT_SAMPLE_RATE,
                                                   TARGET_SAMPLE_RATE))
                     /\ nChunks' = nChunks + 1
                     /\ emitted' = Concat(emitted, frame)
                     /\ lastChunkAt' = now
                     /\ lastThrew' = throws
                     /\ micErrors' = IF throws THEN OnChunkError(micErrors)
                                               ELSE micErrors
                ELSE /\ ~throws
                     /\ resampleBuffer' = concat
                     /\ UNCHANGED <<lastEmitTime, lastChunk, nChunks, micErrors,
                                    lastPcm, lastThrew, lastChunkAt, emitted>>
  /\ UNCHANGED <<mediaStream, audioContext, processor, sourceNode, running,
                 now, streams, contexts, sources, starts, level>>

AudioProcess(p) ==
  \E throws \in BOOLEAN : AudioProcessCall(p, throws)

\* Time passes: one block period, not beyond limit.
TickTo(limit) ==
  /\ now + BlockTime <= limit
  /\ now' = now + BlockTime
  /\ UNCHANGED <<mediaStream, audioContext, processor, sourceNode, running,
                 resampleBuffer, lastEmitTime, streams, contexts, sources,
                 processors, starts, lastChunk, nChunks, micErrors, level,
                 lastPcm, lastThrew, lastChunkAt, received, emitted>>

Tick ==
  TickTo(MaxTicks * BlockTime)

MicNext ==
  \/ StartCall /\ UNCHANGED wsVars
  \/ Stop /\ UNCHANGED wsVars
  \/ \E k \in DOMAIN starts : GetUserMediaReject(k) /\ UNCHANGED wsVars
  \/ \E k \in DOMAIN starts : \E f \in FailurePoints :
       GetUserMediaResolve(k, f) /\ UNCHANGED wsVars
  \/ \E p \in DOMAIN processors : AudioProcess(p) /\ UNCHANGED wsVars
  \/ TickTo(MaxOverlapTicks * BlockTime) /\ UNCHANGED wsVars

Init == WsInit /\ MicInit

SpecWs == Init /\ [][WsNext]_vars

SpecWsIo == Init /\ [][WsIoNext]_vars

\* The framer alone, beside an idle transport.
InitMic == Init /\ urlOk = TRUE

SpecMic == InitMic /\ [][MicNext]_vars

\* The framer driven by a collaborator that makes one start() call at a time.
NoStartInFlight ==
  \A k \in DOMAIN starts : starts[k].pc = "done"

MicSeqNext ==
  \/ NoStartInFlight /\ StartCall /\ UNCHANGED wsVars
  \/ Stop /\ UNCHANGED wsVars
  \/ \E k \in DOMAIN starts : GetUserMediaReject(k) /\ UNCHANGED wsVars
  \/ \E k \in DOMAIN starts : \E f \in FailurePoints :
       GetUserMediaResolve(k, f) /\ UNCHANGED wsVars
  \/ \E p \in DOMAIN processors : AudioProcess(p) /\ UNCHANGED wsVars
  \/ Tick /\ UNCHANGED wsVars

SpecMicSeq == InitMic /\ [][MicSeqNext]_vars

\* The length of the real-time scenario, in sample periods of the context.
ScenarioTime == (ScenarioMs * CONTEXT_SAMPLE_RATE) \div 1000

\* A block of processor p has been captured and not yet delivered.
BlockDue(p) ==
  /\ processors[p].handler
  /\ processors[p].connected
  /\ (processors[p].delivered + 1) * BlockTime <= now - processors[p].t0

\* One session fed at real-time cadence: every block is delivered when it
\* completes, onChunk returns normally, and the session lasts ScenarioTime.
SteadyNext ==
  \/ starts = << >> /\ StartCall /\ UNCHANGED wsVars
  \/ \E k \in DOMAIN starts : GetUserMediaResolve(k, "none") /\ UNCHANGED wsVars
  \/ \E p \in DOMAIN processors : AudioProcessCall(p, FALSE) /\ UNCHANGED wsVars
  \/ /\ \A p \in DOMAIN processors : ~BlockDue(p)
     /\ TickTo(IF running THEN processors[processor].t0 + ScenarioTime
                          ELSE MaxTicks * BlockTime)
     /\ UNCHANGED wsVars

InitSteady ==
  /\ WsInit
  /\ urlOk = TRUE
  /\ level \in Levels
  /\ MicInitQuiet

SpecSteady == InitSteady /\ [][SteadyNext]_vars

\* Both components of one page.
Next == WsIoNext \/ MicNext

Spec == Init /\ [][Next]_vars

\* ------------------------------------------------------ transport claims

LiveSockets == {i \in DOMAIN readyState : readyState[i] \in {"CONNECTING", "OPEN"}}

\* C1: at most one underlying connection of a transport instance is live
\* (connecting or open) at any time, whatever the order of connect(),
\* close() and socket events.
C1_AtMostOneLive ==
  Cardinality(LiveSockets) <= 1

\* C2: a connect() made while the promise returned by the previous connect()
\* is still pending (no close() in between) creates no further WebSocket
\* and returns that same promise.
C2_ConcurrentConnectShared ==
  [][(Connect /\ lastRet.kind \in {"new", "shared"}
              /\ promise[lastRet.id] = "pending")
       => (Len(readyState') = Len(readyState) /\ lastRet'.id = lastRet.id)]_vars

\* C5: connect() never returns the already rejected promise of an earlier
\* attempt.
C5_NoStaleRejected ==
  ~(lastRet.kind = "shared" /\ lastRet.was = "rejected")

\* C6: every attempt settles exactly once: the promise of a WebSocket that
\* opened is resolved, the promise of one that is closed without having
\* opened is rejected, the promise of an attempt whose WebSocket could not
\* be created is rejected, and a settled promise never changes.
C6_Settled ==
  /\ \A s \in DOMAIN readyState :
       /\ everOpened[s] => promise[sockPromise[s]] = "resolved"
       /\ (readyState[s] = "CLOSED" /\ ~everOpened[s])
            => promise[sockPromise[s]] = "rejected"
  /\ \A p \in DOMAIN promise : promSock[p] = 0 => promise[p] = "rejected"

C6_SettlesOnce ==
  \A p \in DOMAIN promise : promise[p] # "pending" => promise'[p] = promise[p]

C6_AttemptSettlesExactlyOnce ==
  []C6_Settled /\ [][C6_SettlesOnce]_vars

\* A WebSocket that never opened had its error and close events delivered,
\* and the promise of its attempt is rejected.
C6_Witness ==
  \E s \in DOMAIN readyState :
    /\ readyState[s] = "CLOSED" /\ ~everOpened[s] /\ closeTask = 0
    /\ promise[sockPromise[s]] = "rejected"

\* C10: isOpen() is true exactly when a WebSocket created by this instance
\* is in the open state.
C10_IsOpenIffOpenSocket ==
  IsOpen <=> (\E s \in DOMAIN readyState : readyState[s] = "OPEN")

WsState == <<socket, openPromise, readyState, everOpened, closeTask, promise,
             wsErrors, nSent, nDelivered>>

\* C11: a sendAudioChunk() made while the connection is not open raises no
\* error, transmits nothing and changes nothing of the transport; a frame
\* is handed to a WebSocket only inside a sendAudioChunk() made while open,
\* so a dropped frame is never transmitted later.
C11_DroppedSendIsSilent ==
  /\ [](~lastSend.open => lastSend.outcome \in {"none", "dropped"})
  /\ [][(SendAudioChunk /\ ~IsOpen) => UNCHANGED WsState]_vars
  /\ [][nSent' # nSent => (IsOpen /\ nSends' = nSends + 1)]_vars

\* A frame was dropped, the connection opened afterwards, and nothing was
\* transmitted.
C11_Witness ==
  /\ lastSend.outcome = "dropped" /\ ~lastSend.open
  /\ IsOpen /\ nSent = 0

\* C12: close() always ends with no socket, no cached promise and isOpen()
\* false, and a close() in that state changes nothing.
C12_CloseEndsClosed ==
  /\ [][Close => (socket' = 0 /\ openPromise' = 0 /\ ~IsOpen')]_vars
  /\ [][(Close /\ socket = 0 /\ openPromise = 0) => UNCHANGED WsState]_vars

\* C13: a text frame that is not JSON makes one onError call and no
\* onMessage call and leaves the connection as it was.
C13_BadJsonReportedOnce ==
  [][(\E s \in DOMAIN readyState : SocketMessage(s, "notJson"))
       => /\ wsErrors' = wsErrors + 1
          /\ nDelivered' = nDelivered
          /\ UNCHANGED <<socket, openPromise, readyState, promise>>]_vars

\* On the only connection, still open, one frame was reported as an error
\* and another was delivered.
C13_Witness ==
  /\ Len(readyState) = 1 /\ IsOpen
  /\ nMsgs = 2 /\ wsErrors = 1 /\ nDelivered = 1

\* C14: every value passed to onMessage is a transcript or an error message.
C14_DeliveredIsServerMessage ==
  lastDelivered \in {"none", "transcript", "error"}

\* C15: the error event of an open connection calls onError and leaves
\* isOpen() false, and a connect() made once the socket is closed starts a
\* new attempt.
C15_ErrorThenClosed ==
  /\ [][\A s \in DOMAIN readyState :
          (SocketError(s) /\ readyState[s] = "OPEN" /\ socket = s)
            => (wsErrors' = wsErrors + 1 /\ ~IsOpen')]_vars
  /\ [][(Connect /\ socket # 0 /\ everOpened[socket]
            /\ readyState[socket] = "CLOSED")
          => Len(promise') = Len(promise) + 1]_vars

\* C20: the events of a WebSocket that close() has put in the closing state
\* call neither callback and leave the closure's socket and openPromise as
\* they are.
C20_ClosedSocketIsInert ==
  [][\A s \in DOMAIN readyState :
       (readyState[s] = "CLOSING" /\ readyState'[s] # "CLOSING")
         => /\ wsErrors' = wsErrors
            /\ nDelivered' = nDelivered
            /\ socket' = socket
            /\ openPromise' = openPromise]_vars

\* --------------------------------------------------------- framer claims

\* Every object the framer acquired is released and no handle is kept.
AllReleased ==
  /\ mediaStream = 0 /\ audioContext = 0 /\ processor = 0 /\ sourceNode = 0
  /\ \A m \in DOMAIN streams : streams[m] = "stopped"
  /\ \A c \in DOMAIN contexts : contexts[c] = "closed"
  /\ \A s \in DOMAIN sources : sources[s] = "disconnected"
  /\ \A p \in DOMAIN processors :
       ~processors[p].connected /\ ~processors[p].handler

Finishes(k) ==
  starts[k].pc = "awaiting" /\ starts'[k].pc = "done"

\* C3: when a start() during whose wait for the microphone stop() was called
\* finishes, the framer is stopped: not recording and holding nothing.
C3_StopWinsOverStart ==
  [][\A k \in DOMAIN starts :
       (Finishes(k) /\ starts[k].stopped) => (~running' /\ AllReleased')]_vars

\* C4: every chunk passed to onChunk holds exactly samplesPerFrame samples.
C4_ChunkIsOneFrame ==
  lastChunk \in {0, SamplesPerFrame}

C7_OnePipeline ==
  /\ Cardinality({m \in DOMAIN streams : streams[m] = "live"}) <= 1
  /\ Cardinality({c \in DOMAIN contexts : contexts[c] = "running"}) <= 1
  /\ Cardinality({p \in DOMAIN processors : processors[p].handler}) <= 1

C7_Objects == <<mediaStream, audioContext, processor, sourceNode, running,
                resampleBuffer, lastEmitTime, streams, contexts, sources,
                processors, lastChunk, nChunks, micErrors>>

\* C7: start() calls with no stop() in between acquire one microphone and
\* build one pipeline, a start() while recording changes nothing, a stop()
\* releases everything acquired, and a stop() of a stopped framer changes
\* nothing.
C7_StartStopIdempotent ==
  /\ []C7_OnePipeline
  /\ [][(StartCall /\ running) => UNCHANGED C7_Objects]_vars
  /\ [][Stop => AllReleased']_vars
  /\ [][(Stop /\ ~running /\ AllReleased) => UNCHANGED C7_Objects]_vars

\* C8: when a start() that failed finishes, the framer is torn down: not
\* recording, everything acquired released, the pending buffer empty.
C8_FailedStartTornDown ==
  [][\A k \in DOMAIN starts :
       (Finishes(k) /\ starts'[k].failed)
         => (~running' /\ AllReleased' /\ resampleBuffer' = << >>)]_vars

\* C9: a start() that failed reports the failure to its caller.
C9_FailedStartRejects ==
  \A k \in DOMAIN starts :
    (starts[k].pc = "done" /\ starts[k].failed) => starts[k].result = "rejected"

\* The real-time scenario has run its ScenarioTime: no further block
\* completes within it and every completed block was delivered.
ScenarioOver ==
  /\ running
  /\ now + BlockTime > processors[processor].t0 + ScenarioTime
  /\ \A p \in DOMAIN processors : ~BlockDue(p)

FrameBytes == SamplesPerFrame * BYTES_PER_SAMPLE

\* C16 (as the spec states it): silent blocks of BUFFER_SIZE samples fed at
\* real-time cadence for 2 s give exactly 8 frames of 8000 bytes, all zero.
C16_EightSilentFrames ==
  (level = 0 /\ ScenarioOver)
    => (nChunks = 8 /\ lastChunk * BYTES_PER_SAMPLE = FrameBytes /\ lastPcm = 0)

\* C16: blocks of BUFFER_SIZE samples fed at real-time cadence for 2 s give
\* exactly 7 frames, every frame has 8000 bytes, and for silent input every
\* sample of every frame is zero.
C16_SevenSilentFrames ==
  /\ nChunks > 0 => lastChunk * BYTES_PER_SAMPLE = FrameBytes
  /\ (level = 0 /\ nChunks > 0) => lastPcm = 0
  /\ ScenarioOver => nChunks = 7

C16_Witness ==
  level = 0 /\ ScenarioOver /\ nChunks = 7 /\ lastPcm = 0

\* C17: an onChunk call that throws is reported through onError once, and
\* the handler leaves the framer recording with lastEmitTime and the pending
\* buffer as after a delivery that returned.
C17_ThrowingOnChunkIsReported ==
  [][(nChunks' = nChunks + 1 /\ lastThrew')
       => /\ micErrors' = micErrors + 1
          /\ running /\ running'
          /\ processor' = processor /\ processors'[processor].handler
          /\ lastEmitTime' = now
          /\ Size(resampleBuffer') =
               Size(resampleBuffer)
               + ResampleLength(BUFFER_SIZE, CONTEXT_SAMPLE_RATE,
                                TARGET_SAMPLE_RATE)
               - lastChunk'
          /\ Concat(emitted', resampleBuffer') = received']_vars

\* In a single session one onChunk call threw and a later one returned.
C17_Witness ==
  /\ Len(starts) = 1 /\ ~starts[1].failed /\ running
  /\ micErrors = 1 /\ ~lastThrew
  /\ Size(emitted) >= 2 * SamplesPerFrame

\* C18: an onChunk call is made no sooner than one frame duration after the
\* previous one, or after the start of the session for the first; a callback
\* that comes sooner emits nothing and only grows the pending buffer.
C18_EmissionsSpaced ==
  /\ [][nChunks' > nChunks => now - lastChunkAt >= FrameTime]_vars
  /\ [][((\E p \in DOMAIN processors : AudioProcess(p)) /\ running
           /\ now - lastChunkAt < FrameTime)
          => /\ nChunks' = nChunks
             /\ Size(resampleBuffer') =
                  Size(resampleBuffer)
                  + ResampleLength(BUFFER_SIZE, CONTEXT_SAMPLE_RATE,
                                   TARGET_SAMPLE_RATE)]_vars

\* Two chunks were emitted in one session, the second a frame duration
\* after the first.
C18_Witness ==
  /\ Len(starts) = 1 /\ running
  /\ Size(emitted) = 2 * SamplesPerFrame
  /\ lastChunkAt - processors[processor].t0 >= 2 * FrameTime

\* C19: while recording, the chunks emitted in the session followed by the
\* pending buffer are the resampled samples received since the session
\* started, each once and in order, and all of them come from the processor
\* this session's start() created.
C19_NoSampleLostOrDuplicated ==
  running =>
    /\ Concat(emitted, resampleBuffer) = received
    /\ received \in {<< >>, <<[p |-> processor, lo |-> 0,
                              hi |-> processors[processor].delivered
                                     * ResampleLength(BUFFER_SIZE,
                                                      CONTEXT_SAMPLE_RATE,
                                                      TARGET_SAMPLE_RATE)]>>}

\* A second session has emitted a chunk and holds pending samples.
C19_Witness ==
  /\ running /\ processor >= 2
  /\ emitted # << >> /\ resampleBuffer # << >>

====
